---- MODULE Spec2Model ----
(***************************************************************************)
(* Tech-pack document pipeline: the placeholder extractor, the FieldFiller *)
(* dialogue component, the analyzeImage tool and the text artifact's       *)
(* stream handler.                                                         *)
(*                                                                         *)
(* Text is modelled as a sequence of one-character strings, so that the    *)
(* regular expressions and the string replacement of the source are        *)
(* computed character by character.                                        *)
(***************************************************************************)
EXTENDS Integers, Sequences, FiniteSets, TLC

VARIABLES
    \* ---- placeholder extractor applied to one input text
    exText,        \* the text handed to extractFieldsNeedingInput
    exFields,      \* its result
    exDone,        \* whether it has run
    \* ---- FieldFiller component (one mounted instance) and what it uses
    artifactContent,               \* artifact.content of useArtifact
    metadataFields,                \* metadata.fieldsNeedingInput (<<>> when absent)
    currentFieldIndex,             \* useState: the cursor, 0-based
    fieldValue,                    \* useState: the text in the input
    fieldsNeedingInput,            \* useState: the field list
    isComplete,                    \* useState
    hasCompletionMessageBeenSent,  \* useState
    messages,                      \* the turns handed to append, in order
    requests,                      \* the bodies posted to /api/document, in order
    savesInFlight,                 \* how many of these fetches have not settled yet
    saveErrors,                    \* how many have been rejected (each is logged by the catch)
    pendingSaves,                  \* which of the requests (by position) have not settled yet
    storeContent,                  \* the content of the last of them to reach the store
    arrivals,                      \* how many generated documents have arrived
    pendingEffects,                \* the effects React still has to run for the last render
    syncFlush,                     \* whether React is flushing them synchronously (the
                                   \* render came from a click): nothing else runs meanwhile
    lastCall,                      \* history: the last callback run, and whether its
                                   \* condition sent it back at once
    \* ---- one call of the analyzeImage tool
    anStatus,        \* where execute stands
    attachments,     \* the attachments the tool was built with
    session,         \* session.user.id, or NoUser
    handlerKinds,    \* the kinds documentHandlersByArtifactKind has a handler for
    docId,           \* const id = generateUUID()
    docTitle,        \* the title parameter, defaulted
    imageIndex,      \* which attachment is imageAttachment (0 before, and when none)
    dataStream,      \* the events written with dataStream.writeData, in order
    draftContent,    \* let draftContent
    streamStarted,   \* whether streamText has been called
    partsRead,       \* how many parts of fullStream the loop has read
    saveCalls,       \* the arguments of the saveDocument calls, in order
    toolResult,      \* what execute returned
    \* ---- the text artifact's onStreamPart applied to one draft
    draftArtifact,   \* the UIArtifact handed to the setArtifact updater
    startArtifact,   \* history: the draft before the first part
    suggestions,     \* metadata.suggestions
    deltaLog,        \* history: one entry for each text-delta applied
    \* ---- the version actions of the text artifact's toolbar
    versionCount,         \* how many snapshots the document has
    currentVersionIndex,  \* the snapshot shown
    mode,                 \* "edit" or "diff"
    lastVersionAction,    \* history: the last action clicked
    \* ---- extractTechPackInfo applied to one document
    tpContent,    \* the children of the editor's content element, in order
    tpInfo,       \* info
    tpBomItems,   \* bomItems
    tpDone        \* whether it has run

exVars == <<exText, exFields, exDone>>

ffVars == <<artifactContent, metadataFields, currentFieldIndex, fieldValue, fieldsNeedingInput,
            isComplete, hasCompletionMessageBeenSent, messages, requests, savesInFlight,
            saveErrors, pendingSaves, storeContent, arrivals, pendingEffects, syncFlush,
            lastCall>>

anVars == <<anStatus, attachments, session, handlerKinds, docId, docTitle, imageIndex,
            dataStream, draftContent, streamStarted, partsRead, saveCalls, toolResult>>

stVars == <<draftArtifact, startArtifact, suggestions, deltaLog>>

verVars == <<versionCount, currentVersionIndex, mode, lastVersionAction>>

tpVars == <<tpContent, tpInfo, tpBomItems, tpDone>>

vars == <<exText, exFields, exDone, artifactContent, metadataFields, currentFieldIndex,
          fieldValue, fieldsNeedingInput, isComplete, hasCompletionMessageBeenSent, messages,
          requests, savesInFlight, saveErrors, pendingSaves, storeContent, arrivals,
          pendingEffects, syncFlush, lastCall,
          anStatus, attachments, session, handlerKinds, docId, docTitle, imageIndex,
          dataStream, draftContent, streamStarted, partsRead, saveCalls, toolResult,
          draftArtifact, startArtifact, suggestions, deltaLog,
          versionCount, currentVersionIndex, mode, lastVersionAction,
          tpContent, tpInfo, tpBomItems, tpDone>>

\* The parts of the state a specification does not use stay as they are here.
ExtractorIdle == exText = <<>> /\ exFields = <<>> /\ exDone = FALSE

NoCall == [op |-> "none", early |-> FALSE]

FieldFillerIdle ==
    /\ artifactContent = <<>>
    /\ metadataFields = <<>>
    /\ currentFieldIndex = 0
    /\ fieldValue = <<>>
    /\ fieldsNeedingInput = <<>>
    /\ isComplete = FALSE
    /\ hasCompletionMessageBeenSent = FALSE
    /\ messages = <<>>
    /\ requests = <<>>
    /\ savesInFlight = 0
    /\ saveErrors = 0
    /\ pendingSaves = {}
    /\ storeContent = <<>>
    /\ arrivals = 0
    /\ pendingEffects = {}
    /\ syncFlush = FALSE
    /\ lastCall = NoCall

NoUser == "none"

NoResult == [tag |-> "none"]

AnalyzeIdle ==
    /\ anStatus = "idle"
    /\ attachments = <<>>
    /\ session = NoUser
    /\ handlerKinds = {}
    /\ docId = "none"
    /\ docTitle = <<>>
    /\ imageIndex = 0
    /\ dataStream = <<>>
    /\ draftContent = <<>>
    /\ streamStarted = FALSE
    /\ partsRead = 0
    /\ saveCalls = <<>>
    /\ toolResult = NoResult

IdleArtifact == [content |-> <<>>, isVisible |-> FALSE, status |-> "idle"]

StreamIdle ==
    /\ draftArtifact = IdleArtifact
    /\ startArtifact = IdleArtifact
    /\ suggestions = <<>>
    /\ deltaLog = <<>>

VersionsIdle ==
    /\ versionCount = 1
    /\ currentVersionIndex = 0
    /\ mode = "edit"
    /\ lastVersionAction = "none"

RecovererIdle ==
    /\ tpContent = <<>>
    /\ tpInfo = <<>>
    /\ tpBomItems = <<>>
    /\ tpDone = FALSE

(***************************************************************************)
(* Text helpers                                                            *)
(***************************************************************************)

\* The substring s[from .. from+len-1] (empty when it does not fit).
Slice(s, from, len) ==
    IF len <= 0 \/ from + len - 1 > Len(s) THEN <<>> ELSE SubSeq(s, from, from + len - 1)

\* String.prototype.concat over a sequence of texts.
RECURSIVE Flatten(_)
Flatten(parts) ==
    IF parts = <<>> THEN <<>> ELSE Head(parts) \o Flatten(Tail(parts))

\* Whether text `t` stands in `s` at position `p` (1-based), literally.
LiteralAt(s, t, p) ==
    /\ p >= 1
    /\ p + Len(t) - 1 <= Len(s)
    /\ \A k \in 1..Len(t) : s[p + k - 1] = t[k]

\* String.prototype.includes
Includes(s, t) == \E p \in 1..(Len(s) + 1) : LiteralAt(s, t, p)

\* The literal placeholder token {{name}}.
Token(name) == <<"{", "{">> \o name \o <<"}", "}">>

(***************************************************************************)
(* extractFieldsNeedingInput: /\{\{([^}]+)\}\}/g run with regex.exec in a  *)
(* loop, then [...new Set(fields)].                                        *)
(***************************************************************************)

\* The first index >= j holding "}", or Len(content)+1: where the greedy
\* [^}]+ stops.
RECURSIVE NameEnd(_, _)
NameEnd(content, j) ==
    IF j > Len(content) \/ content[j] = "}" THEN j ELSE NameEnd(content, j + 1)

\* The length of the name captured by a match that starts at i, 0 when the
\* pattern does not match at i.
CaptureLenAt(content, i) ==
    IF ~LiteralAt(content, <<"{", "{">>, i) THEN 0
    ELSE LET e == NameEnd(content, i + 2)
         IN  IF e > i + 2 /\ LiteralAt(content, <<"}", "}">>, e) THEN e - (i + 2) ELSE 0

\* The while loop over regex.exec: the captured names in match order; after
\* a match the scan resumes at lastIndex, the end of the match.
RECURSIVE ScanFields(_, _)
ScanFields(content, i) ==
    IF i > Len(content) THEN <<>>
    ELSE LET n == CaptureLenAt(content, i)
         IN  IF n = 0 THEN ScanFields(content, i + 1)
             ELSE <<Slice(content, i + 2, n)>> \o ScanFields(content, i + 2 + n + 2)

\* A duplicate remover that keeps the last copy of each name.
RECURSIVE SetSpreadKeepLast(_)
SetSpreadKeepLast(fields) ==
    IF fields = <<>> THEN <<>>
    ELSE IF \E k \in 2..Len(fields) : fields[k] = Head(fields)
         THEN SetSpreadKeepLast(Tail(fields))
         ELSE <<Head(fields)>> \o SetSpreadKeepLast(Tail(fields))

\* [...new Set(fields)]: a Set keeps insertion order and ignores a value it
\* already holds.
RECURSIVE SetSpread(_)
SetSpread(fields) ==
    IF fields = <<>> THEN <<>>
    ELSE LET init == SetSpread(SubSeq(fields, 1, Len(fields) - 1))
             last == fields[Len(fields)]
         IN  IF \E k \in 1..Len(init) : init[k] = last THEN init ELSE Append(init, last)

extractFieldsNeedingInput(content) == SetSpread(ScanFields(content, 1))

(***************************************************************************)
(* Specification of the extractor alone: any text built from at most       *)
(* MaxPieces pieces, then one run.                                         *)
(***************************************************************************)

MaxPieces == 4

Pieces ==
    { <<"{", "{", "a", "}", "}">>, <<"{", "{", "b", "}", "}">>, <<"{", "{", "c", " ", "d", "}", "}">>,
      <<"{">>, <<"}">>, <<"{", "{">>, <<"}", "}">>, <<"a">>, <<"\n">> }

RECURSIVE TextsOf(_)
TextsOf(n) ==
    IF n = 0 THEN {<<>>}
    ELSE LET shorter == TextsOf(n - 1)
         IN  shorter \cup {t \o p : t \in shorter, p \in Pieces}

ExtractInputs == TextsOf(MaxPieces)

InitExtract ==
    /\ exText \in ExtractInputs
    /\ exFields = <<>>
    /\ exDone = FALSE
    /\ FieldFillerIdle
    /\ AnalyzeIdle
    /\ StreamIdle
    /\ VersionsIdle
    /\ RecovererIdle

ExtractRun ==
    /\ ~exDone
    /\ exFields' = extractFieldsNeedingInput(exText)
    /\ exDone' = TRUE
    /\ UNCHANGED exText
    /\ UNCHANGED <<ffVars, anVars, stVars, verVars, tpVars>>

NextExtract == ExtractRun

SpecExtract == InitExtract /\ [][NextExtract]_vars

(***************************************************************************)
(* C7: the extractor's result                                              *)
(***************************************************************************)

NoDuplicates(seq) == \A i, j \in 1..Len(seq) : i # j => seq[i] # seq[j]

\* The index of the first copy of x in seq (0 when absent).
FirstIndex(seq, x) ==
    IF \E k \in 1..Len(seq) : seq[k] = x
    THEN CHOOSE k \in 1..Len(seq) : seq[k] = x /\ \A m \in 1..(k - 1) : seq[m] # x
    ELSE 0

\* The first position at which the token {{name}} stands in the text (0 when
\* it does not): a definition that does not use the scan.
FirstTokenPos(text, name) ==
    IF Includes(text, Token(name))
    THEN CHOOSE p \in 1..Len(text) :
             LiteralAt(text, Token(name), p) /\ \A q \in 1..(p - 1) : ~LiteralAt(text, Token(name), q)
    ELSE 0

\* A name a placeholder can enclose without nesting: not empty, no brace.
PlainName(name) == name # <<>> /\ \A k \in 1..Len(name) : name[k] \notin {"{", "}"}

\* Every piece of the text: its substrings.
Substrings(text) == { Slice(text, p, n) : p \in 1..Len(text), n \in 1..Len(text) }

\* The plain names that stand enclosed in {{...}} somewhere in the text.
EnclosedPlainNames(text) ==
    { name \in Substrings(text) : PlainName(name) /\ Includes(text, Token(name)) }

LineTerminators == {"\n", "\r"}

\* One pattern atom: the characters it matches.
LiteralAtom(c) == [any |-> FALSE, set |-> {c}]
AnyAtom == [any |-> TRUE, set |-> {}]
ClassAtom(members) == [any |-> FALSE, set |-> members]

AtomMatches(atom, c) == (atom.any /\ c \notin LineTerminators) \/ c \in atom.set

\* The first index >= j holding "]", or 0.
RECURSIVE ClassEnd(_, _)
ClassEnd(src, j) ==
    IF j > Len(src) THEN 0 ELSE IF src[j] = "]" THEN j ELSE ClassEnd(src, j + 1)

\* Whether new RegExp accepts the source: a "[" must be closed. (When it is
\* not, the constructor throws a SyntaxError.)
RECURSIVE PatternValid(_, _)
PatternValid(src, i) ==
    IF i > Len(src) THEN TRUE
    ELSE IF src[i] = "[" THEN LET e == ClassEnd(src, i + 1)
                              IN  e # 0 /\ PatternValid(src, e + 1)
    ELSE PatternValid(src, i + 1)

\* The atoms of a valid pattern source.
RECURSIVE PatternAtoms(_, _)
PatternAtoms(src, i) ==
    IF i > Len(src) THEN <<>>
    ELSE IF src[i] = "." THEN <<AnyAtom>> \o PatternAtoms(src, i + 1)
    ELSE IF src[i] = "[" THEN
        LET e == ClassEnd(src, i + 1)
        IN  <<ClassAtom({src[k] : k \in (i + 1)..(e - 1)})>> \o PatternAtoms(src, e + 1)
    ELSE <<LiteralAtom(src[i])>> \o PatternAtoms(src, i + 1)

\* The pattern \{\{<fieldName>\}\}: the escaped braces are literal.
FieldPattern(fieldName) ==
    <<LiteralAtom("{"), LiteralAtom("{")>> \o PatternAtoms(fieldName, 1)
        \o <<LiteralAtom("}"), LiteralAtom("}")>>

\* Whether the atoms match the text at position p. No atom repeats, so a
\* match has exactly Len(atoms) characters.
AtomsMatchAt(text, atoms, p) ==
    /\ p + Len(atoms) - 1 <= Len(text)
    /\ \A k \in 1..Len(atoms) : AtomMatches(atoms[k], text[p + k - 1])

\* GetSubstitution: the replacement text with its $ patterns expanded. No
\* group is captured, so $1..$99 and $< stay as written.
RECURSIVE Substitution(_, _, _, _)
Substitution(replacement, matched, before, after) ==
    IF replacement = <<>> THEN <<>>
    ELSE IF Head(replacement) = "$" /\ Len(replacement) >= 2 THEN
        LET c == replacement[2]
            rest == SubSeq(replacement, 3, Len(replacement))
        IN  IF c = "$" THEN <<"$">> \o Substitution(rest, matched, before, after)
            ELSE IF c = "&" THEN matched \o Substitution(rest, matched, before, after)
            ELSE IF c = "`" THEN before \o Substitution(rest, matched, before, after)
            ELSE IF c = "'" THEN after \o Substitution(rest, matched, before, after)
            ELSE <<"$">> \o Substitution(Tail(replacement), matched, before, after)
    ELSE <<Head(replacement)>> \o Substitution(Tail(replacement), matched, before, after)

\* String.prototype.replace with a global pattern: every match, left to
\* right, not overlapping, gives way to the expanded replacement.
RECURSIVE RegExpReplaceAll(_, _, _, _)
RegExpReplaceAll(text, atoms, replacement, p) ==
    IF p > Len(text) THEN <<>>
    ELSE IF AtomsMatchAt(text, atoms, p) THEN
        LET n == Len(atoms)
        IN  Substitution(replacement, Slice(text, p, n), SubSeq(text, 1, p - 1),
                         SubSeq(text, p + n, Len(text)))
                \o RegExpReplaceAll(text, atoms, replacement, p + n)
    ELSE <<text[p]>> \o RegExpReplaceAll(text, atoms, replacement, p + 1)

\* `[${fieldName} - Not Provided]`
NotProvidedMarker(fieldName) ==
    <<"[">> \o fieldName
        \o <<" ", "-", " ", "N", "o", "t", " ", "P", "r", "o", "v", "i", "d", "e", "d", "]">>

\* A replacement that writes the value where the marker belongs and the
\* marker for a value.
ReplacementTextSwapped(fieldName, value) ==
    IF value # <<>> THEN NotProvidedMarker(fieldName) ELSE <<"x">>

\* value || `[${fieldName} - Not Provided]`
ReplacementText(fieldName, value) ==
    IF value # <<>> THEN value ELSE NotProvidedMarker(fieldName)

\* updateArtifactContent up to the replacement: what becomes of the content.
\*   skipped: artifact.content is empty, the function returns at once;
\*   threw:   new RegExp rejects the pattern source;
\*   otherwise content is updatedContent, which is set and posted.
UpdatedContent(content, fieldName, value) ==
    IF content = <<>> THEN [skipped |-> TRUE, threw |-> FALSE, content |-> content]
    ELSE IF ~PatternValid(fieldName, 1) THEN [skipped |-> FALSE, threw |-> TRUE, content |-> content]
    ELSE [skipped |-> FALSE, threw |-> FALSE,
          content |-> RegExpReplaceAll(content, FieldPattern(fieldName),
                                       ReplacementText(fieldName, value), 1)]

(***************************************************************************)
(* FieldFiller: trim, toLowerCase and getAcknowledgmentMessage             *)
(*                                                                         *)
(* A turn's text is a sequence of strings too; the fixed phrases of the    *)
(* source are kept whole, one element each, around the characters of the   *)
(* field name and of the value.                                            *)
(***************************************************************************)

WhiteSpace == {" ", "\n", "\t", "\r"}

\* String.prototype.trim
RECURSIVE TrimStart(_)
TrimStart(v) == IF v # <<>> /\ Head(v) \in WhiteSpace THEN TrimStart(Tail(v)) ELSE v

RECURSIVE TrimEnd(_)
TrimEnd(v) ==
    IF v # <<>> /\ v[Len(v)] \in WhiteSpace THEN TrimEnd(SubSeq(v, 1, Len(v) - 1)) ELSE v

Trim(v) == TrimEnd(TrimStart(v))

UpperCase == <<"A", "B", "C", "D", "E", "F", "G", "H", "I", "J", "K", "L", "M",
               "N", "O", "P", "Q", "R", "S", "T", "U", "V", "W", "X", "Y", "Z">>

LowerCase == <<"a", "b", "c", "d", "e", "f", "g", "h", "i", "j", "k", "l", "m",
               "n", "o", "p", "q", "r", "s", "t", "u", "v", "w", "x", "y", "z">>

\* String.prototype.toLowerCase
ToLowerCase(v) ==
    [k \in 1..Len(v) |->
        IF \E u \in 1..26 : UpperCase[u] = v[k]
        THEN LowerCase[CHOOSE u \in 1..26 : UpperCase[u] = v[k]]
        ELSE v[k]]

\* The closing sentence, from remainingFields = totalFields - currentIndex - 1.
AckTail(currentIndex, totalFields) ==
    IF totalFields - currentIndex - 1 > 0
    THEN <<"Let's continue with the next field.">>
    ELSE <<"That was the last field! I'll review the tech pack now.">>

\* The acknowledgment for a submitted value, chosen by the lower-cased
\* field name.
SubmittedAcknowledgment(fieldName, value, currentIndex, totalFields) ==
    IF Includes(ToLowerCase(fieldName), <<"b", "r", "a", "n", "d">>)
    THEN <<"Thank you for providing the brand name \"">> \o value \o <<"\". ">>
             \o AckTail(currentIndex, totalFields)
    ELSE IF Includes(ToLowerCase(fieldName), <<"d", "e", "s", "i", "g", "n", "e", "r">>)
    THEN <<"Got it, the designer is \"">> \o value \o <<"\". ">>
             \o AckTail(currentIndex, totalFields)
    ELSE IF Includes(ToLowerCase(fieldName), <<"d", "e", "s", "c", "r", "i", "p", "t", "i", "o", "n">>)
    THEN <<"Thank you for the description. ">> \o AckTail(currentIndex, totalFields)
    ELSE IF Includes(ToLowerCase(fieldName), <<"m", "e", "a", "s", "u", "r", "e", "m", "e", "n", "t", "s">>)
    THEN <<"I've updated the measurements as provided. ">> \o AckTail(currentIndex, totalFields)
    ELSE <<"Thank you for providing the ">> \o ToLowerCase(fieldName) \o <<". ">>
             \o AckTail(currentIndex, totalFields)

getAcknowledgmentMessage(fieldName, value, currentIndex, totalFields, skipped) ==
    IF skipped
    THEN <<"No problem, I've marked ">> \o fieldName \o <<" as not provided. ">>
             \o AckTail(currentIndex, totalFields)
    ELSE SubmittedAcknowledgment(fieldName, value, currentIndex, totalFields)

\* The turn handleSubmitField appends.
SubmitTurn(fieldName, value, ack) ==
    [role |-> "user",
     content |-> <<"For ">> \o fieldName \o <<": ">> \o value \o <<"\n\n**AI Response:** ">> \o ack]

\* The turn handleSkipField appends.
SkipTurn(fieldName, ack) ==
    [role |-> "user",
     content |-> <<"I'd like to skip providing the ">> \o fieldName
                     \o <<" for now.\n\n**AI Response:** ">> \o ack]

\* The turn the completion effect appends.
CompletionTurn ==
    [role |-> "user",
     content |-> <<"I've completed filling in all the required fields. Please review the tech pack and let me know if you have any suggestions for improvements.">>]

(***************************************************************************)
(* FieldFiller: the component                                              *)
(***************************************************************************)

\* The documents that can arrive, as analyzeImage leaves them in the artifact.
BrandSeasonDoc ==
    <<"#", "#", " ", "B", "r", "a", "n", "d", "\n", "{", "{", "B", "r", "a", "n", "d", "}", "}",
      "\n", "\n", "#", "#", " ", "S", "e", "a", "s", "o", "n", "\n",
      "{", "{", "S", "e", "a", "s", "o", "n", "}", "}">>

MeasurementsDoc ==
    Token(<<"M", "e", "a", "s", "u", "r", "e", "m", "e", "n", "t", "s">>) \o <<"\n">>
        \o Token(<<"M", "e", "a", "s", "u", "r", "e", "m", "e", "n", "t", "s">>)

\* A field name that is pattern syntax: as a pattern, "S[M]" matches "SM"
\* (the template of analyzeImage itself asks for "... e.g., XS S [M] L XL").
SizesDoc == Token(<<"S", "[", "M", "]">>) \o <<" ">> \o Token(<<"S", "M">>)

NoFieldsDoc == <<"#", "#", " ", "B", "r", "a", "n", "d", "\n", "N", "i", "k", "e">>

\* A field name that is no pattern at all: new RegExp throws on "\{\{S[\}\}".
OpenBracketDoc == Token(<<"S", "[">>)

Documents == {BrandSeasonDoc, MeasurementsDoc, SizesDoc, NoFieldsDoc, OpenBracketDoc}

\* What the user can have typed in the input when Submit is clicked.
FieldValues == { <<>>, <<" ">>, <<"N", "i", "k", "e">>, <<"F", "W", "2", "4">>, <<"$", "&">> }

\* The render guard: the form, with its Submit and Skip buttons, is returned
\* unless the field list is empty or isComplete.
FormRendered == ~(Len(fieldsNeedingInput) = 0 \/ isComplete)

\* The history keeps a callback that was sent back at once (its condition was
\* false); after any other step it is reset.
CallOf(op, early) == IF early THEN [op |-> op, early |-> TRUE] ELSE NoCall

\* The number of documents generated in one chat.
MaxArrivals == 2

\* The component has just been mounted: its first render is done and both
\* effects are still to run.
InitFieldFiller ==
    /\ artifactContent = <<>>
    /\ metadataFields = <<>>
    /\ currentFieldIndex = 0
    /\ fieldValue = <<>>
    /\ fieldsNeedingInput = <<>>
    /\ isComplete = FALSE
    /\ hasCompletionMessageBeenSent = FALSE
    /\ messages = <<>>
    /\ requests = <<>>
    /\ savesInFlight = 0
    /\ saveErrors = 0
    /\ pendingSaves = {}
    /\ storeContent = <<>>
    /\ arrivals = 0
    /\ pendingEffects = {"metadata", "completion"}
    /\ syncFlush = FALSE
    /\ lastCall = NoCall
    /\ ExtractorIdle
    /\ AnalyzeIdle
    /\ StreamIdle
    /\ VersionsIdle
    /\ RecovererIdle

(***************************************************************************)
(* React runs an effect after a render in which one of its dependencies    *)
(* changed. After a render caused by a click the effects are flushed       *)
(* synchronously, and so are the renders they cause: no event comes in     *)
(* between. After any other render they are flushed a moment later, and at *)
(* the latest before the next render; a click can come first, and its      *)
(* handler then reads the state of the last render. The metadata effect is *)
(* declared first and runs first.                                          *)
(***************************************************************************)

\* A generated document reaches the client: the artifact holds its text and
\* the metadata the field list the server extracted from that text.
DocumentArrives(doc) ==
    /\ ~syncFlush
    /\ arrivals < MaxArrivals
    /\ arrivals' = arrivals + 1
    /\ artifactContent' = doc
    /\ metadataFields' = extractFieldsNeedingInput(doc)
    /\ pendingEffects' = pendingEffects \cup {"metadata"}
    /\ lastCall' = NoCall
    /\ UNCHANGED <<currentFieldIndex, fieldValue, fieldsNeedingInput, isComplete,
                   hasCompletionMessageBeenSent, messages, requests, savesInFlight, pendingSaves,
                   syncFlush>>
    /\ UNCHANGED <<saveErrors, storeContent, exVars, anVars, stVars, verVars, tpVars>>

\* The conversation changes (a reply streams in), useChat hands the
\* component a new append, and the completion effect, which depends on it,
\* is due again.
ConversationChanges ==
    /\ ~syncFlush
    /\ "completion" \notin pendingEffects
    /\ pendingEffects' = pendingEffects \cup {"completion"}
    /\ lastCall' = NoCall
    /\ UNCHANGED <<artifactContent, metadataFields, currentFieldIndex, fieldValue,
                   fieldsNeedingInput, isComplete, hasCompletionMessageBeenSent, messages,
                   requests, savesInFlight, pendingSaves, arrivals, syncFlush>>
    /\ UNCHANGED <<saveErrors, storeContent, exVars, anVars, stVars, verVars, tpVars>>

\* useEffect(..., [metadata])
MetadataEffect ==
    /\ "metadata" \in pendingEffects
    /\ fieldsNeedingInput' =
           IF Len(metadataFields) > 0 THEN metadataFields ELSE fieldsNeedingInput
    /\ pendingEffects' =
           (pendingEffects \ {"metadata"}) \cup
               (IF Len(fieldsNeedingInput') # Len(fieldsNeedingInput) THEN {"completion"} ELSE {})
    /\ syncFlush' = (syncFlush /\ pendingEffects' # {})
    /\ lastCall' = CallOf("metadataEffect", ~(Len(metadataFields) > 0))
    /\ UNCHANGED <<artifactContent, metadataFields, currentFieldIndex, fieldValue, isComplete,
                   hasCompletionMessageBeenSent, messages, requests, savesInFlight,
                   pendingSaves, arrivals>>
    /\ UNCHANGED <<saveErrors, storeContent, exVars, anVars, stVars, verVars, tpVars>>

\* The completion check without the one-shot flag.
CompletionDueIgnoringSentFlag ==
    /\ Len(fieldsNeedingInput) > 0
    /\ currentFieldIndex >= Len(fieldsNeedingInput)

\* The completion check without the test for an empty field list.
CompletionDueIgnoringEmptyList ==
    /\ currentFieldIndex >= Len(fieldsNeedingInput)
    /\ ~hasCompletionMessageBeenSent

\* The condition of the completion effect.
CompletionDue ==
    /\ Len(fieldsNeedingInput) > 0
    /\ currentFieldIndex >= Len(fieldsNeedingInput)
    /\ ~hasCompletionMessageBeenSent

\* useEffect(..., [currentFieldIndex, fieldsNeedingInput.length, append,
\* hasCompletionMessageBeenSent]). When it sets the two flags and appends,
\* its dependencies change and it is due once more.
CompletionEffect ==
    /\ "completion" \in pendingEffects
    /\ "metadata" \notin pendingEffects
    /\ IF CompletionDue
       THEN /\ isComplete' = TRUE
            /\ hasCompletionMessageBeenSent' = TRUE
            /\ messages' = Append(messages, CompletionTurn)
            /\ UNCHANGED <<pendingEffects, syncFlush>>
       ELSE /\ pendingEffects' = pendingEffects \ {"completion"}
            /\ syncFlush' = FALSE
            /\ UNCHANGED <<isComplete, hasCompletionMessageBeenSent, messages>>
    /\ lastCall' = CallOf("completionEffect", ~CompletionDue)
    /\ UNCHANGED <<artifactContent, metadataFields, currentFieldIndex, fieldValue,
                   fieldsNeedingInput, requests, savesInFlight, pendingSaves, arrivals>>
    /\ UNCHANGED <<saveErrors, storeContent, exVars, anVars, stVars, verVars, tpVars>>

\* fieldsNeedingInput[index]; past the end it is undefined, which a template
\* literal writes as "undefined" (the handlers return before they read it).
FieldAt(index) ==
    IF index + 1 \in DOMAIN fieldsNeedingInput
    THEN fieldsNeedingInput[index + 1]
    ELSE <<"u", "n", "d", "e", "f", "i", "n", "e", "d">>

\* An early return that tests the value as typed.
SubmitRejectedUntrimmed(value) == currentFieldIndex >= Len(fieldsNeedingInput) \/ value = <<>>

\* The early return of handleSubmitField.
SubmitRejected(value) == currentFieldIndex >= Len(fieldsNeedingInput) \/ Trim(value) = <<>>

\* An early return that lets the cursor's end position through.
SkipRejectedOffByOne == currentFieldIndex > Len(fieldsNeedingInput)

\* An early return that also sends a click back while a save is in flight.
SkipRejectedWhileSaving ==
    currentFieldIndex >= Len(fieldsNeedingInput) \/ savesInFlight > 0

\* The early return of handleSkipField.
SkipRejected == currentFieldIndex >= Len(fieldsNeedingInput)

\* The part submit and skip share: updateArtifactContent, append, and
\* setCurrentFieldIndex. When new RegExp throws, the handler ends there and
\* nothing is set. The cursor is a dependency of the completion effect, and
\* the render comes from a click.
ResolveField(value, turn) ==
    LET fieldName == FieldAt(currentFieldIndex)
        upd == UpdatedContent(artifactContent, fieldName, value)
    IN  IF upd.threw
        THEN UNCHANGED <<artifactContent, requests, savesInFlight, pendingSaves, messages, currentFieldIndex,
                         pendingEffects, syncFlush>>
        ELSE /\ artifactContent' = upd.content
             /\ requests' = IF upd.skipped THEN requests ELSE Append(requests, upd.content)
             /\ savesInFlight' = IF upd.skipped THEN savesInFlight ELSE savesInFlight + 1
             /\ pendingSaves' = IF upd.skipped THEN pendingSaves
                                ELSE pendingSaves \cup {Len(requests) + 1}
             /\ messages' = Append(messages, turn)
             /\ currentFieldIndex' = currentFieldIndex + 1
             /\ pendingEffects' = pendingEffects \cup {"completion"}
             /\ syncFlush' = TRUE

\* A click on Submit with `value` in the input (put there by onChange:
\* setFieldValue(e.target.value)).
handleSubmitField(value) ==
    /\ ~syncFlush
    /\ FormRendered
    /\ lastCall' = CallOf("submit", SubmitRejected(value))
    /\ IF SubmitRejected(value)
       THEN /\ fieldValue' = value
            /\ UNCHANGED <<artifactContent, requests, savesInFlight, pendingSaves, messages, currentFieldIndex,
                           pendingEffects, syncFlush>>
       ELSE LET fieldName == FieldAt(currentFieldIndex)
                upd == UpdatedContent(artifactContent, fieldName, value)
            IN  /\ ResolveField(value,
                       SubmitTurn(fieldName, value,
                           getAcknowledgmentMessage(fieldName, value, currentFieldIndex,
                                                    Len(fieldsNeedingInput), FALSE)))
                /\ fieldValue' = IF upd.threw THEN value ELSE <<>>
    /\ UNCHANGED <<metadataFields, fieldsNeedingInput, isComplete, hasCompletionMessageBeenSent,
                   arrivals>>
    /\ UNCHANGED <<saveErrors, storeContent, exVars, anVars, stVars, verVars, tpVars>>

\* A click on Skip.
handleSkipField ==
    /\ ~syncFlush
    /\ FormRendered
    /\ lastCall' = CallOf("skip", SkipRejected)
    /\ IF SkipRejected
       THEN UNCHANGED <<artifactContent, requests, savesInFlight, pendingSaves, messages, currentFieldIndex, fieldValue,
                        pendingEffects, syncFlush>>
       ELSE LET fieldName == FieldAt(currentFieldIndex)
                upd == UpdatedContent(artifactContent, fieldName, <<>>)
            IN  /\ ResolveField(<<>>,
                       SkipTurn(fieldName,
                           getAcknowledgmentMessage(fieldName, <<>>, currentFieldIndex,
                                                    Len(fieldsNeedingInput), TRUE)))
                /\ fieldValue' = IF upd.threw THEN fieldValue ELSE <<>>
    /\ UNCHANGED <<metadataFields, fieldsNeedingInput, isComplete, hasCompletionMessageBeenSent,
                   arrivals>>
    /\ UNCHANGED <<saveErrors, storeContent, exVars, anVars, stVars, verVars, tpVars>>

Next ==
    \/ \E doc \in Documents : DocumentArrives(doc)
    \/ ConversationChanges
    \/ MetadataEffect
    \/ CompletionEffect
    \/ \E v \in FieldValues : handleSubmitField(v)
    \/ handleSkipField

Spec == InitFieldFiller /\ [][Next]_vars

(***************************************************************************)
(* Claims about the FieldFiller                                            *)
(***************************************************************************)

CompletionTurnCount ==
    Cardinality({i \in 1..Len(messages) : messages[i] = CompletionTurn})

\* C1: whatever the order of document arrivals, submits, skips and
\* re-evaluations of the completion check, the conversation holds the
\* completion turn at most once.
CompletionTurnAtMostOnce == CompletionTurnCount <= 1

\* The completion check ran again after the completion turn was sent, with
\* the cursor at or past the field count, and appended nothing.
CompletionReevaluatedWitness ==
    /\ lastCall = [op |-> "completionEffect", early |-> TRUE]
    /\ hasCompletionMessageBeenSent
    /\ Len(fieldsNeedingInput) > 0
    /\ currentFieldIndex >= Len(fieldsNeedingInput)
    /\ CompletionTurnCount = 1

\* C2: a submit (with any value) or a skip invoked when the cursor is at or
\* past the field count changes neither the content, nor the turns, nor the
\* posted requests, nor the cursor.
SubmitSkipPastEndChangeNothing ==
    [][(/\ currentFieldIndex >= Len(fieldsNeedingInput)
        /\ \/ \E v \in FieldValues : handleSubmitField(v)
           \/ handleSkipField)
       => UNCHANGED <<artifactContent, messages, requests, currentFieldIndex>>]_vars

\* Submit was clicked with a non-blank value while the cursor was at the
\* field count, and was sent back.
SubmitPastEndWitness ==
    /\ lastCall = [op |-> "submit", early |-> TRUE]
    /\ Trim(fieldValue) # <<>>
    /\ Len(fieldsNeedingInput) > 0
    /\ currentFieldIndex >= Len(fieldsNeedingInput)

\* C3: the cursor stays within 0..count and never decreases, across
\* submits, skips and the replacement of the field list.
CursorWithinCountAndMonotone ==
    /\ [](0 <= currentFieldIndex /\ currentFieldIndex <= Len(fieldsNeedingInput))
    /\ [][currentFieldIndex' >= currentFieldIndex]_vars

\* Plain text replacement: every occurrence of `token`, left to right, gives
\* way to `by`, written as it is.
RECURSIVE LiteralReplaceAll(_, _, _, _)
LiteralReplaceAll(text, token, by, p) ==
    IF p > Len(text) THEN <<>>
    ELSE IF LiteralAt(text, token, p)
    THEN by \o LiteralReplaceAll(text, token, by, p + Len(token))
    ELSE <<text[p]>> \o LiteralReplaceAll(text, token, by, p + 1)

\* C4: an accepted submit of value v on field f leaves the content with
\* every literal token {{f}} replaced by exactly v, and nothing else changed.
SubmitReplacesTokenLiterally ==
    [][\A v \in FieldValues :
         (handleSubmitField(v) /\ ~SubmitRejected(v))
         => artifactContent' =
                LiteralReplaceAll(artifactContent, Token(FieldAt(currentFieldIndex)), v, 1)]_vars

Brand == <<"B", "r", "a", "n", "d">>
Season == <<"S", "e", "a", "s", "o", "n">>
Nike == <<"N", "i", "k", "e">>
FW24 == <<"F", "W", "2", "4">>

\* "## Brand\nNike\n\n## Season\n{{Season}}"
BrandSeasonAfterNike ==
    <<"#", "#", " ", "B", "r", "a", "n", "d", "\n", "N", "i", "k", "e", "\n", "\n",
      "#", "#", " ", "S", "e", "a", "s", "o", "n", "\n", "{", "{", "S", "e", "a", "s", "o", "n", "}", "}">>

\* "## Brand\nNike\n\n## Season\nFW24"
BrandSeasonAfterFW24 ==
    <<"#", "#", " ", "B", "r", "a", "n", "d", "\n", "N", "i", "k", "e", "\n", "\n",
      "#", "#", " ", "S", "e", "a", "s", "o", "n", "\n", "F", "W", "2", "4">>

\* The turn that acknowledges the brand.
NikeTurn ==
    [role |-> "user",
     content |-> <<"For ">> \o Brand \o <<": ">> \o Nike
                     \o <<"\n\n**AI Response:** ", "Thank you for providing the brand name \"">>
                     \o Nike \o <<"\". ", "Let's continue with the next field.">>]

FW24Turn ==
    [role |-> "user",
     content |-> <<"For ">> \o Season \o <<": ">> \o FW24
                     \o <<"\n\n**AI Response:** ", "Thank you for providing the ",
                          "s", "e", "a", "s", "o", "n", ". ",
                          "That was the last field! I'll review the tech pack now.">>]

\* The two submits of the example have been made, from the start of the
\* session, on the example's document.
BrandSeasonSubmitted ==
    /\ Len(messages) >= 2
    /\ messages[1] = NikeTurn
    /\ messages[2] = FW24Turn
    /\ Len(requests) >= 2
    /\ requests[1] = BrandSeasonAfterNike
    /\ requests[2] = BrandSeasonAfterFW24

\* C5: from "## Brand\n{{Brand}}\n\n## Season\n{{Season}}" the extractor
\* yields <<Brand, Season>>; submit("Nike") rewrites the content to
\* "## Brand\nNike\n\n## Season\n{{Season}}" and appends one turn that
\* acknowledges the brand; the following submit("FW24") leaves the cursor at
\* 2, the field count, and once the effects have run exactly one completion
\* turn has been appended.
BrandSeasonExample ==
    /\ [](artifactContent = BrandSeasonDoc => metadataFields = <<Brand, Season>>)
    /\ [][(/\ artifactContent = BrandSeasonDoc
           /\ fieldsNeedingInput = <<Brand, Season>>
           /\ currentFieldIndex = 0
           /\ handleSubmitField(Nike))
          => /\ artifactContent' = BrandSeasonAfterNike
             /\ messages' = Append(messages, NikeTurn)
             /\ currentFieldIndex' = 1]_vars
    /\ [][(/\ artifactContent = BrandSeasonAfterNike
           /\ fieldsNeedingInput = <<Brand, Season>>
           /\ currentFieldIndex = 1
           /\ handleSubmitField(FW24))
          => /\ artifactContent' = BrandSeasonAfterFW24
             /\ messages' = Append(messages, FW24Turn)
             /\ currentFieldIndex' = 2
             /\ currentFieldIndex' = Len(fieldsNeedingInput')]_vars
    /\ [](BrandSeasonSubmitted =>
             /\ currentFieldIndex = 2
             /\ CompletionTurnCount <= 1
             /\ (pendingEffects = {} => CompletionTurnCount = 1))

\* The example has run to its end.
BrandSeasonExampleWitness ==
    /\ artifactContent = BrandSeasonAfterFW24
    /\ fieldsNeedingInput = <<Brand, Season>>
    /\ currentFieldIndex = 2
    /\ requests = <<BrandSeasonAfterNike, BrandSeasonAfterFW24>>
    /\ messages = <<NikeTurn, FW24Turn, CompletionTurn>>
    /\ pendingEffects = {}

\* C6: while the field list is empty the form is not rendered and no
\* completion turn has been appended, however often the effects run.
EmptyFieldListNeverRendersNorCompletes ==
    Len(fieldsNeedingInput) = 0 =>
        /\ ~FormRendered
        /\ ~isComplete
        /\ ~hasCompletionMessageBeenSent
        /\ CompletionTurnCount = 0

\* A document without placeholders has arrived, and both effects have run
\* on its empty field list, the completion check last.
EmptyFieldListWitness ==
    /\ arrivals >= 1
    /\ artifactContent = NoFieldsDoc
    /\ metadataFields = <<>>
    /\ fieldsNeedingInput = <<>>
    /\ pendingEffects = {}
    /\ lastCall = [op |-> "completionEffect", early |-> TRUE]

\* C8: an accepted skip on field f leaves no token {{f}} in the content and
\* writes the not-provided marker where the content held one; the turn it
\* appends carries the skip acknowledgment, which is not the acknowledgment
\* a submit gives for the same field.
SkipWritesMarkerAndSkipAcknowledgment ==
    [][(handleSkipField /\ ~SkipRejected) =>
          LET f == FieldAt(currentFieldIndex)
              skipAck == <<"No problem, I've marked ">> \o f \o <<" as not provided. ">>
                             \o AckTail(currentFieldIndex, Len(fieldsNeedingInput))
          IN  /\ ~Includes(artifactContent', Token(f))
              /\ Includes(artifactContent, Token(f)) =>
                     Includes(artifactContent', NotProvidedMarker(f))
              /\ messages' = Append(messages, SkipTurn(f, skipAck))
              /\ \A v \in FieldValues :
                     skipAck # SubmittedAcknowledgment(f, v, currentFieldIndex,
                                                       Len(fieldsNeedingInput))]_vars

(***************************************************************************)
(* analyzeImage: one call of the tool's execute                            *)
(*                                                                         *)
(* The tool is built with the session, the data stream and the attachments *)
(* of the message; execute is called with the title parameter. The parts   *)
(* of fullStream come from the language model: they are drawn here, at     *)
(* most MaxParts of them, and the stream can fail instead of yielding.     *)
(***************************************************************************)

MaxParts == 3

ImagePrefix == <<"i", "m", "a", "g", "e", "/">>

Png == [name |-> <<"a">>, url |-> <<"u">>,
        contentType |-> <<"i", "m", "a", "g", "e", "/", "p", "n", "g">>]

\* An image attachment without a name.
Jpeg == [name |-> <<>>, url |-> <<"v">>,
         contentType |-> <<"i", "m", "a", "g", "e", "/", "j", "p", "e", "g">>]

Pdf == [name |-> <<"d">>, url |-> <<"w">>,
        contentType |-> <<"a", "p", "p", "l", "i", "c", "a", "t", "i", "o", "n", "/", "p", "d", "f">>]

\* An attachment without a contentType (the empty text stands for it:
\* attachment.contentType?.startsWith("image/") is not true of either).
Untyped == [name |-> <<"e">>, url |-> <<"x">>, contentType |-> <<>>]

AttachmentLists ==
    {<<>>, <<Pdf>>, <<Untyped>>, <<Png>>, <<Pdf, Png>>, <<Png, Jpeg>>, <<Jpeg, Png>>}

DefaultTitle ==
    <<"C", "l", "o", "t", "h", "i", "n", "g", " ", "T", "e", "c", "h", " ", "P", "a", "c", "k",
      " ", "A", "n", "a", "l", "y", "s", "i", "s">>

\* The title parameter: left out, or given.
TitleArgs == {[given |-> FALSE, text |-> <<>>], [given |-> TRUE, text |-> <<"T">>]}

SessionUsers == {NoUser, "u1"}

HandlerRegistries == {{}, {"text"}}

DocIds == {"id1", "id2"}

\* The parts fullStream can yield: text deltas, and a part of another type.
StreamParts ==
    {[type |-> "text-delta", textDelta |-> t] :
        t \in {<<"{", "{", "a", "}", "}">>, <<"{", "{", "b", "}", "}">>,
               <<"{", "{">>, <<"a", "}", "}">>, <<"x", " ">>}}
    \cup {[type |-> "step-finish", textDelta |-> <<>>]}

\* A test that takes every attachment with a content type for an image.
IsImageAnyType(attachment) == attachment.contentType # <<>>

\* attachment.contentType?.startsWith("image/")
IsImage(attachment) == LiteralAt(attachment.contentType, ImagePrefix, 1)

\* Array.prototype.find: the index of the first attachment that is an image,
\* 0 when there is none.
FindImageAttachment(list) ==
    IF \E i \in 1..Len(list) : IsImage(list[i])
    THEN CHOOSE i \in 1..Len(list) :
             IsImage(list[i]) /\ \A j \in 1..(i - 1) : ~IsImage(list[j])
    ELSE 0

\* `# ${title}\n\n![${imageAttachment.name || "Uploaded Image"}](${imageAttachment.url})\n\n`
ImageMarkdown(title, attachment) ==
    <<"#", " ">> \o title \o <<"\n", "\n", "!", "[">>
        \o (IF attachment.name # <<>> THEN attachment.name
            ELSE <<"U", "p", "l", "o", "a", "d", "e", "d", " ", "I", "m", "a", "g", "e">>)
        \o <<"]", "(">> \o attachment.url \o <<")", "\n", "\n">>

Event(type, content) == [type |-> type, content |-> content]

HeaderEventsIdFirst(id, title) ==
    <<Event("id", id), Event("kind", "text"), Event("title", title), Event("clear", <<>>)>>

\* The four writeData calls that open the document.
HeaderEvents(id, title) ==
    <<Event("kind", "text"), Event("id", id), Event("title", title), Event("clear", <<>>)>>

ErrorResult == [tag |-> "error"]

CreatedResult(id, title) == [tag |-> "created", id |-> id, title |-> title, kind |-> "text"]

\* execute, up to its first await: the search for an image, the opening
\* events, the search for the handler, and the call of streamText.
Execute(list, titleArg, user, registry, id) ==
    /\ anStatus = "idle"
    /\ attachments' = list
    /\ session' = user
    /\ handlerKinds' = registry
    /\ LET title == IF titleArg.given THEN titleArg.text ELSE DefaultTitle
           found == FindImageAttachment(list)
       IN  IF found = 0
           THEN /\ toolResult' = ErrorResult
                /\ anStatus' = "returned"
                /\ UNCHANGED <<docId, docTitle, imageIndex, dataStream, draftContent,
                               streamStarted>>
           ELSE /\ docId' = id
                /\ docTitle' = title
                /\ imageIndex' = found
                /\ draftContent' = ImageMarkdown(title, list[found])
                /\ dataStream' = HeaderEvents(id, title)
                                     \o <<Event("text-delta", ImageMarkdown(title, list[found]))>>
                /\ IF "text" \in registry
                   THEN anStatus' = "streaming" /\ streamStarted' = TRUE
                   ELSE anStatus' = "threw" /\ UNCHANGED streamStarted
                /\ UNCHANGED toolResult
    /\ UNCHANGED <<partsRead, saveCalls>>
    /\ UNCHANGED <<exVars, ffVars, stVars, verVars, tpVars>>

\* A loop that saves the draft at every part it reads.
StreamYieldsAndSaves(part) ==
    /\ anStatus = "streaming"
    /\ partsRead < MaxParts
    /\ partsRead' = partsRead + 1
    /\ IF part.type = "text-delta"
       THEN /\ draftContent' = draftContent \o part.textDelta
            /\ dataStream' = Append(dataStream, Event("text-delta", part.textDelta))
       ELSE UNCHANGED <<draftContent, dataStream>>
    /\ saveCalls' = Append(saveCalls,
                           [id |-> docId, title |-> docTitle, content |-> draftContent',
                            kind |-> "text", userId |-> session])
    /\ UNCHANGED <<anStatus, attachments, session, handlerKinds, docId, docTitle, imageIndex,
                   streamStarted, toolResult>>
    /\ UNCHANGED <<exVars, ffVars, stVars, verVars, tpVars>>

\* One turn of `for await (const delta of fullStream)`.
StreamYields(part) ==
    /\ anStatus = "streaming"
    /\ partsRead < MaxParts
    /\ partsRead' = partsRead + 1
    /\ IF part.type = "text-delta"
       THEN /\ draftContent' = draftContent \o part.textDelta
            /\ dataStream' = Append(dataStream, Event("text-delta", part.textDelta))
       ELSE UNCHANGED <<draftContent, dataStream>>
    /\ UNCHANGED <<anStatus, attachments, session, handlerKinds, docId, docTitle, imageIndex,
                   streamStarted, saveCalls, toolResult>>
    /\ UNCHANGED <<exVars, ffVars, stVars, verVars, tpVars>>

\* The stream fails: the loop throws, and so does execute.
StreamThrows ==
    /\ anStatus = "streaming"
    /\ anStatus' = "threw"
    /\ UNCHANGED <<attachments, session, handlerKinds, docId, docTitle, imageIndex, dataStream,
                   draftContent, streamStarted, partsRead, saveCalls, toolResult>>
    /\ UNCHANGED <<exVars, ffVars, stVars, verVars, tpVars>>

\* The stream is exhausted: the field list is extracted and written, and the
\* document is saved when the session has a user.
StreamEnds ==
    /\ anStatus = "streaming"
    /\ dataStream' = Append(dataStream,
                            Event("fields-needing-input",
                                  extractFieldsNeedingInput(draftContent)))
    /\ IF session # NoUser
       THEN /\ saveCalls' = Append(saveCalls,
                                   [id |-> docId, title |-> docTitle, content |-> draftContent,
                                    kind |-> "text", userId |-> session])
            /\ anStatus' = "saving"
            /\ UNCHANGED toolResult
       ELSE /\ toolResult' = CreatedResult(docId, docTitle)
            /\ anStatus' = "returned"
            /\ UNCHANGED saveCalls
    /\ UNCHANGED <<attachments, session, handlerKinds, docId, docTitle, imageIndex, draftContent,
                   streamStarted, partsRead>>
    /\ UNCHANGED <<exVars, ffVars, stVars, verVars, tpVars>>

\* await saveDocument(...) resolves, and execute returns its result.
SaveResolves ==
    /\ anStatus = "saving"
    /\ toolResult' = CreatedResult(docId, docTitle)
    /\ anStatus' = "returned"
    /\ UNCHANGED <<attachments, session, handlerKinds, docId, docTitle, imageIndex, dataStream,
                   draftContent, streamStarted, partsRead, saveCalls>>
    /\ UNCHANGED <<exVars, ffVars, stVars, verVars, tpVars>>

\* await saveDocument(...) rejects, and execute throws.
SaveRejects ==
    /\ anStatus = "saving"
    /\ anStatus' = "threw"
    /\ UNCHANGED <<attachments, session, handlerKinds, docId, docTitle, imageIndex, dataStream,
                   draftContent, streamStarted, partsRead, saveCalls, toolResult>>
    /\ UNCHANGED <<exVars, ffVars, stVars, verVars, tpVars>>

InitAnalyze ==
    /\ AnalyzeIdle
    /\ ExtractorIdle
    /\ FieldFillerIdle
    /\ StreamIdle
    /\ VersionsIdle
    /\ RecovererIdle

NextAnalyze ==
    \/ \E list \in AttachmentLists, titleArg \in TitleArgs, user \in SessionUsers,
          registry \in HandlerRegistries, id \in DocIds :
           Execute(list, titleArg, user, registry, id)
    \/ \E part \in StreamParts : StreamYields(part)
    \/ StreamThrows
    \/ StreamEnds
    \/ SaveResolves
    \/ SaveRejects

SpecAnalyze == InitAnalyze /\ [][NextAnalyze]_vars

EventTypes == [k \in 1..Len(dataStream) |-> dataStream[k].type]

\* C9: when a run has returned its result, the events written are kind, id,
\* title, clear, then text-delta events only, then one fields-needing-input
\* event, the last; and at no moment of any run does a text-delta follow a
\* fields-needing-input event.
SuccessfulRunEventOrder ==
    /\ (anStatus = "returned" /\ toolResult.tag = "created") =>
           /\ Len(dataStream) >= 5
           /\ SubSeq(EventTypes, 1, 4) = <<"kind", "id", "title", "clear">>
           /\ EventTypes[Len(dataStream)] = "fields-needing-input"
           /\ \A k \in 5..(Len(dataStream) - 1) : EventTypes[k] = "text-delta"
    /\ \A j, k \in 1..Len(dataStream) :
           (j < k /\ EventTypes[j] = "fields-needing-input") => EventTypes[k] # "text-delta"

\* A run that streamed model text with placeholders and returned.
SuccessfulRunWitness ==
    /\ anStatus = "returned"
    /\ toolResult.tag = "created"
    /\ Len(dataStream) >= 8
    /\ dataStream[Len(dataStream)].type = "fields-needing-input"
    /\ Len(dataStream[Len(dataStream)].content) = 2

(***************************************************************************)
(* textArtifact.onStreamPart applied to the parts of one stream            *)
(*                                                                         *)
(* onStreamPart reads the draft's content only through its length, so the  *)
(* content is kept as the sequence of the lengths of the texts appended to *)
(* it. The status and the visibility the draft has when the first part     *)
(* comes are set outside onStreamPart: both are drawn.                     *)
(***************************************************************************)

MaxDeltas == 4

VisibleAbove == 400

VisibleBelow == 450

\* The lengths of the text deltas drawn.
DeltaLengths == {1, 49, 200, 400}

RECURSIVE Sum(_)
Sum(lengths) == IF lengths = <<>> THEN 0 ELSE Head(lengths) + Sum(Tail(lengths))

\* draftArtifact.content.length
ContentLength(draft) == Sum(draft.content)

ShowsDraftInclusive(draft) ==
    /\ draft.status = "streaming"
    /\ ContentLength(draft) >= VisibleAbove
    /\ ContentLength(draft) < VisibleBelow

\* The condition of the isVisible conditional, on the draft the updater is
\* handed.
ShowsDraft(draft) ==
    /\ draft.status = "streaming"
    /\ ContentLength(draft) > VisibleAbove
    /\ ContentLength(draft) < VisibleBelow

\* An updater that shows the draft only while its length is in the window.
AppendDeltaVisibleInWindowOnly(draft, length) ==
    [content |-> Append(draft.content, length),
     isVisible |-> ShowsDraft(draft),
     status |-> "streaming"]

\* The setArtifact updater of a text-delta part.
AppendDelta(draft, length) ==
    [content |-> Append(draft.content, length),
     isVisible |-> IF ShowsDraft(draft) THEN TRUE ELSE draft.isVisible,
     status |-> "streaming"]

InitStream ==
    /\ draftArtifact \in {[content |-> <<>>, isVisible |-> v, status |-> st] :
                             v \in BOOLEAN, st \in {"idle", "streaming"}}
    /\ startArtifact = draftArtifact
    /\ suggestions = <<>>
    /\ deltaLog = <<>>
    /\ ExtractorIdle
    /\ FieldFillerIdle
    /\ AnalyzeIdle
    /\ VersionsIdle
    /\ RecovererIdle

\* onStreamPart with a part of type "text-delta".
TextDeltaPart(length) ==
    /\ Len(deltaLog) < MaxDeltas
    /\ draftArtifact' = AppendDelta(draftArtifact, length)
    /\ deltaLog' = Append(deltaLog,
                          [statusBefore |-> draftArtifact.status,
                           lengthBefore |-> ContentLength(draftArtifact),
                           lengthAfter |-> ContentLength(draftArtifact) + length,
                           visibleAfter |-> draftArtifact'.isVisible])
    /\ UNCHANGED <<startArtifact, suggestions>>
    /\ UNCHANGED <<exVars, ffVars, anVars, verVars, tpVars>>

\* onStreamPart with a part of type "suggestion".
SuggestionPart ==
    /\ Len(suggestions) < 1
    /\ suggestions' = Append(suggestions, "suggestion")
    /\ UNCHANGED <<draftArtifact, startArtifact, deltaLog>>
    /\ UNCHANGED <<exVars, ffVars, anVars, verVars, tpVars>>

NextStream ==
    \/ \E length \in DeltaLengths : TextDeltaPart(length)
    \/ SuggestionPart

SpecStream == InitStream /\ [][NextStream]_vars

\* The text-deltas applied while the status was already "streaming" to a
\* draft whose length, before the delta was appended, lay strictly between
\* 400 and 450.
WindowBefore(n) ==
    {k \in 1..n : /\ deltaLog[k].statusBefore = "streaming"
                  /\ deltaLog[k].lengthBefore > 400
                  /\ deltaLog[k].lengthBefore < 450}

\* The text-deltas after which the accumulated length lay strictly between
\* 400 and 450 (the status is "streaming" after every text-delta).
WindowAfter(n) ==
    {k \in 1..n : deltaLog[k].lengthAfter > 400 /\ deltaLog[k].lengthAfter < 450}

\* C10, as amended: a draft that was not visible at the start is visible
\* after the n-th text-delta exactly when one of the first n deltas was
\* applied while the status was already "streaming" and the length
\* accumulated before it lay strictly between 400 and 450: it becomes
\* visible at the first such delta.
VisibleFromWindowBeforeDelta ==
    ~startArtifact.isVisible =>
        /\ \A n \in 1..Len(deltaLog) : deltaLog[n].visibleAfter = (WindowBefore(n) # {})
        /\ draftArtifact.isVisible = (WindowBefore(Len(deltaLog)) # {})

\* A draft became visible at its third delta: the second had brought the
\* length into the window.
VisibleFromWindowWitness ==
    /\ ~startArtifact.isVisible
    /\ Len(deltaLog) = 3
    /\ ~deltaLog[2].visibleAfter
    /\ deltaLog[2].lengthAfter = 401
    /\ deltaLog[3].visibleAfter
    /\ draftArtifact.isVisible

\* C10, as stated: a draft that was not visible at the start is visible
\* after the n-th text-delta exactly when, after one of the first n deltas,
\* the accumulated length lay strictly between 400 and 450.
VisibleFromWindowAfterDelta ==
    ~startArtifact.isVisible =>
        \A n \in 1..Len(deltaLog) : deltaLog[n].visibleAfter = (WindowAfter(n) # {})

\* C11: once isVisible is true, no text-delta and no suggestion part handled
\* by onStreamPart sets it back to false.
VisibleStaysVisible ==
    [][draftArtifact.isVisible => draftArtifact'.isVisible]_vars

\* A draft became visible at a text-delta, and a later text-delta, applied
\* to a draft whose length had left the window, and a suggestion were
\* handled after that.
VisibleStaysVisibleWitness ==
    /\ ~startArtifact.isVisible
    /\ draftArtifact.isVisible
    /\ suggestions # <<>>
    /\ \E k \in 1..Len(deltaLog) :
           /\ deltaLog[k].visibleAfter
           /\ k < Len(deltaLog)
           /\ deltaLog[Len(deltaLog)].lengthBefore >= 450

\* The texts of the text-delta events written so far, put together.
StreamedText ==
    Flatten([k \in 1..Len(dataStream) |->
                IF dataStream[k].type = "text-delta" THEN dataStream[k].content ELSE <<>>])

\* The fullStream loop threw: execute threw after streamText was called and
\* before the fields-needing-input event.
StreamFailed ==
    /\ anStatus = "threw"
    /\ streamStarted
    /\ \A k \in 1..Len(dataStream) : dataStream[k].type # "fields-needing-input"

NoImageAttached ==
    \A i \in 1..Len(attachments) :
        LET type == attachments[i].contentType
        IN  ~(Len(type) >= 6 /\ SubSeq(type, 1, 6) = <<"i", "m", "a", "g", "e", "/">>)

\* C13: a call whose attachments hold no image returns the error result and
\* does nothing else: no event is written, no id is generated, streamText is
\* not called and saveDocument is not called.
NoImageReturnsErrorOnly ==
    (anStatus # "idle" /\ NoImageAttached) =>
        /\ anStatus = "returned"
        /\ toolResult = [tag |-> "error"]
        /\ dataStream = <<>>
        /\ docId = "none"
        /\ ~streamStarted
        /\ saveCalls = <<>>
        /\ draftContent = <<>>

\* A call with attachments, none of them an image, has returned.
NoImageWitness ==
    /\ anStatus = "returned"
    /\ Len(attachments) > 0
    /\ NoImageAttached
    /\ toolResult = [tag |-> "error"]
    /\ handlerKinds = {"text"}
    /\ session # NoUser

\* C14: a call that finds an image but no handler for the kind "text" throws
\* with no text-delta event and no fields-needing-input event written, no
\* saveDocument call made, and streamText never called.
NoHandlerAbortsBeforeContent ==
    (anStatus # "idle" /\ ~NoImageAttached /\ "text" \notin handlerKinds) =>
        /\ anStatus = "threw"
        /\ \A k \in 1..Len(dataStream) :
               dataStream[k].type \notin {"text-delta", "fields-needing-input"}
        /\ saveCalls = <<>>
        /\ ~streamStarted

(***************************************************************************)
(* The version actions of the text artifact: toggle, prev and next         *)
(*                                                                         *)
(* The actions and their isDisabled tests are those of textArtifact. What  *)
(* handleVersionChange does, and isCurrentVersion, are taken from the      *)
(* Version Store contract: toggle flips the diff view and leaves the       *)
(* index, prev decrements it and stops at 0, next increments it and stops  *)
(* at the last index, and the current version is the last snapshot.        *)
(***************************************************************************)

MaxVersions == 8

\* The snapshot shown is the last one.
IsCurrentVersion == currentVersionIndex = versionCount - 1

\* isDisabled of "View changes".
ToggleDisabled == currentVersionIndex = 0

\* isDisabled of "View Previous version".
PrevDisabled == currentVersionIndex = 0

NextDisabledAtFirst == currentVersionIndex = 0

\* isDisabled of "View Next version".
NextDisabled == IsCurrentVersion

handleVersionChange(type) ==
    /\ mode' = IF type = "toggle"
               THEN (IF mode = "edit" THEN "diff" ELSE "edit")
               ELSE mode
    /\ currentVersionIndex' =
           IF type = "prev" /\ currentVersionIndex > 0
           THEN currentVersionIndex - 1
           ELSE IF type = "next" /\ currentVersionIndex < versionCount - 1
           THEN currentVersionIndex + 1
           ELSE currentVersionIndex
    /\ UNCHANGED versionCount

\* A click on "View changes".
ClickToggle ==
    /\ ~ToggleDisabled
    /\ handleVersionChange("toggle")
    /\ lastVersionAction' = "toggle"
    /\ UNCHANGED <<exVars, ffVars, anVars, stVars, tpVars>>

\* A click on "View Previous version".
ClickPrev ==
    /\ ~PrevDisabled
    /\ handleVersionChange("prev")
    /\ lastVersionAction' = "prev"
    /\ UNCHANGED <<exVars, ffVars, anVars, stVars, tpVars>>

\* A click on "View Next version".
ClickNext ==
    /\ ~NextDisabled
    /\ handleVersionChange("next")
    /\ lastVersionAction' = "next"
    /\ UNCHANGED <<exVars, ffVars, anVars, stVars, tpVars>>

\* The artifact is opened on a document with some snapshots: the last one is
\* shown, in the editor.
InitVersions ==
    /\ versionCount \in 1..MaxVersions
    /\ currentVersionIndex = versionCount - 1
    /\ mode = "edit"
    /\ lastVersionAction = "none"
    /\ ExtractorIdle
    /\ FieldFillerIdle
    /\ AnalyzeIdle
    /\ StreamIdle
    /\ RecovererIdle

NextVersions ==
    \/ ClickToggle
    \/ ClickPrev
    \/ ClickNext

SpecVersions == InitVersions /\ [][NextVersions]_vars

DiffModeNeverAtFirstVersion ==
    mode = "diff" => currentVersionIndex >= 1

\* C17: an accepted submit or skip on field f, made on a non-empty content
\* that holds no token {{f}}, raises no error: it leaves the content as it
\* is, appends one turn and advances the cursor by one.
NoOccurrenceStillAdvances ==
    [][(/\ \/ \E v \in FieldValues : handleSubmitField(v) /\ ~SubmitRejected(v)
           \/ handleSkipField /\ ~SkipRejected
        /\ artifactContent # <<>>
        /\ ~Includes(artifactContent, Token(FieldAt(currentFieldIndex))))
       => /\ artifactContent' = artifactContent
          /\ Len(messages') = Len(messages) + 1
          /\ currentFieldIndex' = currentFieldIndex + 1]_vars

(***************************************************************************)
(* FieldFiller with the answers of the server to the document saves        *)
(*                                                                         *)
(* updateArtifactContent starts fetch(...) and does not await it; the      *)
(* promise settles later, between two events. A rejection runs the catch,  *)
(* which logs it; a resolution runs nothing.                               *)
(***************************************************************************)

\* The fetch of one save resolves: its content is in the store. The fetches
\* are not ordered among themselves.
SaveSucceeds ==
    /\ ~syncFlush
    /\ savesInFlight > 0
    /\ savesInFlight' = savesInFlight - 1
    /\ \E k \in pendingSaves :
           /\ pendingSaves' = pendingSaves \ {k}
           /\ storeContent' = requests[k]
    /\ UNCHANGED <<artifactContent, metadataFields, currentFieldIndex, fieldValue,
                   fieldsNeedingInput, isComplete, hasCompletionMessageBeenSent, messages,
                   requests, saveErrors, arrivals, pendingEffects, syncFlush, lastCall>>
    /\ UNCHANGED <<exVars, anVars, stVars, verVars, tpVars>>

\* The fetch of one save is rejected: .catch((error) => console.error(...)).
SaveFails ==
    /\ ~syncFlush
    /\ savesInFlight > 0
    /\ savesInFlight' = savesInFlight - 1
    /\ saveErrors' = saveErrors + 1
    /\ \E k \in pendingSaves : pendingSaves' = pendingSaves \ {k}
    /\ UNCHANGED storeContent
    /\ UNCHANGED <<artifactContent, metadataFields, currentFieldIndex, fieldValue,
                   fieldsNeedingInput, isComplete, hasCompletionMessageBeenSent, messages,
                   requests, arrivals, pendingEffects, syncFlush, lastCall>>
    /\ UNCHANGED <<exVars, anVars, stVars, verVars, tpVars>>

NextSaves ==
    \/ \E doc \in Documents : DocumentArrives(doc)
    \/ ConversationChanges
    \/ MetadataEffect
    \/ CompletionEffect
    \/ \E v \in FieldValues : handleSubmitField(v)
    \/ handleSkipField
    \/ SaveSucceeds
    \/ SaveFails

SpecSaves == InitFieldFiller /\ [][NextSaves]_vars

\* C18: the settling of a background save, resolved or rejected, changes
\* neither the content, nor the cursor, nor the turns; and while a save is
\* in flight or has failed, a skip, or a submit of a non-blank value, made
\* with the cursor before the end is not sent back: it advances the cursor
\* (unless new RegExp throws on the field name, which no save causes).
SaveSettlingLeavesDialogue ==
    /\ [][(SaveSucceeds \/ SaveFails)
          => UNCHANGED <<artifactContent, currentFieldIndex, messages, fieldsNeedingInput,
                         isComplete, hasCompletionMessageBeenSent>>]_vars
    /\ [][(/\ savesInFlight > 0 \/ saveErrors > 0
           /\ currentFieldIndex < Len(fieldsNeedingInput)
           /\ \/ handleSkipField
              \/ \E v \in FieldValues : Trim(v) # <<>> /\ handleSubmitField(v))
          => /\ lastCall' = NoCall
             /\ \/ currentFieldIndex' = currentFieldIndex + 1
                \/ ~PatternValid(FieldAt(currentFieldIndex), 1)]_vars

\* One save was rejected and another is still in flight, and the dialogue
\* of the Brand and Season document has run to its end all the same.
SaveSettlingWitness ==
    /\ saveErrors = 1
    /\ savesInFlight = 1
    /\ requests = <<BrandSeasonAfterNike, BrandSeasonAfterFW24>>
    /\ artifactContent = BrandSeasonAfterFW24
    /\ currentFieldIndex = 2
    /\ messages = <<NikeTurn, FW24Turn, CompletionTurn>>

(***************************************************************************)
(* extractTechPackInfo: the record recovered from the finished document    *)
(*                                                                         *)
(* The document is the sequence of the children of the editor's content    *)
(* element: headings, paragraphs and lists. An element carries its         *)
(* textContent; a list carries the textContent of each of its items too.   *)
(***************************************************************************)

MaxElements == 4

\* index < 11
MaxListRows == 11

HeadingTags == {"H1", "H2", "H3", "H4", "H5", "H6"}

ListTags == {"UL", "OL"}

HeadingElement(text) == [tag |-> "H2", text |-> text, items |-> <<>>]

ParagraphElement(text) == [tag |-> "P", text |-> text, items |-> <<>>]

ListElement(tag, items) == [tag |-> tag, text |-> Flatten(items), items |-> items]

\* String.prototype.split with a one-character separator.
RECURSIVE Split(_, _)
Split(text, sep) ==
    IF \E i \in 1..Len(text) : text[i] = sep
    THEN LET i == CHOOSE i \in 1..Len(text) :
                      text[i] = sep /\ \A j \in 1..(i - 1) : text[j] # sep
         IN  <<SubSeq(text, 1, i - 1)>> \o Split(SubSeq(text, i + 1, Len(text)), sep)
    ELSE <<text>>

SplitPartsCommaFirst(text) ==
    LET raw == IF \E i \in 1..Len(text) : text[i] = ","
               THEN Split(text, ",") ELSE Split(text, ";")
    IN  [k \in 1..Len(raw) |-> Trim(raw[k])]

\* text.includes(";") ? text.split(";").map(trim) : text.split(",").map(trim)
SplitParts(text) ==
    LET raw == IF \E i \in 1..Len(text) : text[i] = ";"
               THEN Split(text, ";") ELSE Split(text, ",")
    IN  [k \in 1..Len(raw) |-> Trim(raw[k])]

\* parts[k - 1] || ""
PartAt(parts, k) == IF k <= Len(parts) THEN parts[k] ELSE <<>>

\* The object pushed to bomItems.
BomRow(parts) ==
    [item |-> PartAt(parts, 1), description |-> PartAt(parts, 2), color |-> PartAt(parts, 3),
     code |-> PartAt(parts, 4), qty |-> PartAt(parts, 5), supplier |-> PartAt(parts, 6)]

\* items.forEach((item, index) => { if (index < 11) ... })
ListRows(items) ==
    [k \in 1..(IF Len(items) < MaxListRows THEN Len(items) ELSE MaxListRows) |->
        BomRow(SplitParts(Trim(items[k])))]

BillOfMaterialsText == <<"b", "i", "l", "l", " ", "o", "f", " ", "m", "a", "t", "e", "r", "i", "a", "l", "s">>

MaterialsText == <<"m", "a", "t", "e", "r", "i", "a", "l", "s">>

MaterialText == <<"m", "a", "t", "e", "r", "i", "a", "l">>

FabricText == <<"f", "a", "b", "r", "i", "c">>

BomText == <<"b", "o", "m">>

\* The test of Array.from(headings).find(...) on one element.
IsBomHeading(element) ==
    /\ element.tag \in HeadingTags
    /\ \/ Includes(ToLowerCase(element.text), BillOfMaterialsText)
       \/ Includes(ToLowerCase(element.text), MaterialsText)
       \/ Includes(ToLowerCase(element.text), BomText)

\* The index of the first heading that passes the test, 0 when none does.
BomHeadingIndex(content) ==
    IF \E i \in 1..Len(content) : IsBomHeading(content[i])
    THEN CHOOSE i \in 1..Len(content) :
             IsBomHeading(content[i]) /\ \A j \in 1..(i - 1) : ~IsBomHeading(content[j])
    ELSE 0

\* The while loop over the siblings that follow the heading: a paragraph
\* with two parts or more gives a row, the first list gives its rows and
\* ends the loop, and so does the next heading.
RECURSIVE WalkSiblings(_, _, _)
WalkSiblings(content, i, rows) ==
    IF i > Len(content) \/ content[i].tag \in HeadingTags THEN rows
    ELSE IF content[i].tag \in ListTags THEN rows \o ListRows(content[i].items)
    ELSE IF content[i].tag = "P"
    THEN LET text == Trim(content[i].text)
             parts == SplitParts(text)
         IN  WalkSiblings(content, i + 1,
                 IF /\ text # <<>>
                    /\ ~Includes(ToLowerCase(text), BillOfMaterialsText)
                    /\ Len(parts) >= 2
                 THEN Append(rows, BomRow(parts))
                 ELSE rows)
    ELSE WalkSiblings(content, i + 1, rows)

\* The scan of every list of the document, made when no row was found: a
\* list whose previous sibling mentions material, fabric or bom gives its
\* rows.
RECURSIVE ScanLists(_, _, _)
ScanLists(content, i, rows) ==
    IF i > Len(content) THEN rows
    ELSE LET previousText == IF i > 1 THEN ToLowerCase(content[i - 1].text) ELSE <<>>
         IN  ScanLists(content, i + 1,
                 IF /\ content[i].tag \in ListTags
                    /\ \/ Includes(previousText, MaterialText)
                       \/ Includes(previousText, FabricText)
                       \/ Includes(previousText, BomText)
                 THEN rows \o ListRows(content[i].items)
                 ELSE rows)

\* bomItems, as extractTechPackInfo returns it.
RecoverBomItems(content) ==
    LET h == BomHeadingIndex(content)
        found == IF h = 0 THEN <<>> ELSE WalkSiblings(content, h + 1, <<>>)
    IN  IF Len(found) = 0 THEN ScanLists(content, 1, <<>>) ELSE found

\* The info object as it is created; the date is the day of the export.
DefaultInfo ==
    [brand |-> <<"T", "H", "E", " ", "B", "R", "A", "N", "D", " ", "N", "A", "M", "E">>,
     designer |-> <<"C", "L", "I", "E", "N", "T", " ", "N", "A", "M", "E", " ", "H", "E", "R", "E">>,
     description |-> <<"W", "O", "M", "E", "N", "S", "W", "E", "A", "R">>,
     season |-> <<"N", "/", "A">>,
     date |-> <<"2", "0", "2", "6", ".", "1", "1", ".", "0", "4">>,
     mainFabric |-> <<"F", "A", "B", "R", "I", "C">>,
     styleName |-> <<"S", "T", "Y", "L", "E", " ", "N", "A", "M", "E", " ", "H", "E", "R", "E">>,
     styleNumber |-> <<"A", "B", "C", "1", "2", "3">>,
     sizeRange |-> <<"X", "S", " ", "S", " ", "[", "M", "]", " ", "L", " ", "X", "L", " ", "X", "X", "L">>]

\* The if / else-if chain both passes run on a lower-case text: the
\* attribute it names, "none" when it names none.
AttributeFor(t) ==
    IF Includes(t, <<"b", "r", "a", "n", "d">>) THEN "brand"
    ELSE IF Includes(t, <<"d", "e", "s", "i", "g", "n", "e", "r">>) THEN "designer"
    ELSE IF Includes(t, <<"d", "e", "s", "c", "r", "i", "p", "t", "i", "o", "n">>) THEN "description"
    ELSE IF Includes(t, <<"s", "e", "a", "s", "o", "n">>) THEN "season"
    ELSE IF Includes(t, FabricText) /\ ~Includes(t, MaterialsText) THEN "mainFabric"
    ELSE IF Includes(t, <<"s", "t", "y", "l", "e", " ", "n", "a", "m", "e">>) THEN "styleName"
    ELSE IF Includes(t, <<"s", "t", "y", "l", "e", " ", "n", "u", "m", "b", "e", "r">>) \/ Includes(t, <<"s", "t", "y", "l", "e", " ", "#">>) THEN "styleNumber"
    ELSE IF Includes(t, <<"s", "i", "z", "e">>) THEN "sizeRange"
    ELSE "none"

\* text.match(/^([^:]+):\s*(.+)$/): the key runs up to the first colon and is
\* not empty; the value is what follows the colon and the white space after
\* it, is not empty and holds no line terminator.
KeyValueMatch(text) ==
    LET colons == {i \in 1..Len(text) : text[i] = ":"}
    IN  IF colons = {} THEN [matched |-> FALSE, key |-> <<>>, value |-> <<>>]
        ELSE LET c == CHOOSE i \in colons : \A j \in colons : i <= j
                 value == TrimStart(SubSeq(text, c + 1, Len(text)))
             IN  IF \/ c = 1
                    \/ value = <<>>
                    \/ \E k \in 1..Len(value) : value[k] \in LineTerminators
                 THEN [matched |-> FALSE, key |-> <<>>, value |-> <<>>]
                 ELSE [matched |-> TRUE, key |-> SubSeq(text, 1, c - 1), value |-> value]

\* paragraphs.forEach: a "Key: Value" paragraph sets the attribute its key
\* names.
RECURSIVE ParagraphPass(_, _, _)
ParagraphPass(content, i, info) ==
    IF i > Len(content) THEN info
    ELSE LET m == KeyValueMatch(Trim(content[i].text))
             attribute == IF content[i].tag = "P" /\ m.matched
                          THEN AttributeFor(ToLowerCase(Trim(m.key)))
                          ELSE "none"
         IN  ParagraphPass(content, i + 1,
                 IF attribute = "none" THEN info
                 ELSE [info EXCEPT ![attribute] = Trim(m.value)])

HeadingValueAlways(value, held) == value

\* value || info.x
HeadingValue(value, held) == IF value # <<>> THEN value ELSE held

\* headings.forEach: a heading that is not followed by another heading sets
\* the attribute its text names to the text of the element after it.
RECURSIVE HeadingPass(_, _, _)
HeadingPass(content, i, info) ==
    IF i > Len(content) THEN info
    ELSE LET skip == \/ content[i].tag \notin HeadingTags
                     \/ (i < Len(content) /\ content[i + 1].tag \in HeadingTags)
             value == IF i < Len(content) THEN Trim(content[i + 1].text) ELSE <<>>
             attribute == IF skip THEN "none"
                          ELSE AttributeFor(ToLowerCase(Trim(content[i].text)))
         IN  HeadingPass(content, i + 1,
                 IF attribute = "none" THEN info
                 ELSE [info EXCEPT ![attribute] = HeadingValue(value, info[attribute])])

\* info, as extractTechPackInfo returns it.
RecoverInfo(content) == HeadingPass(content, 1, ParagraphPass(content, 1, DefaultInfo))

\* The elements a document is made of here.
CottonLine == <<"C", "o", "t", "t", "o", "n", ",", " ", "1", "0", "0", "%", ";", "B", "l", "u", "e">>

Elements ==
    {HeadingElement(<<"B", "i", "l", "l", " ", "o", "f", " ", "M", "a", "t", "e", "r", "i", "a", "l", "s">>),
     HeadingElement(<<"B", "r", "a", "n", "d">>),
     ParagraphElement(CottonLine),
     ParagraphElement(<<"B", "r", "a", "n", "d", ":", " ", "N", "i", "k", "e">>),
     ParagraphElement(<<" ">>),
     ParagraphElement(<<"M", "a", "i", "n", " ", "f", "a", "b", "r", "i", "c">>),
     ListElement("UL", <<<<" ", "Z", "i", "p", " ", ",", " ", "Y", "K", "K", " ">>, <<"a", ";", "b", ";", "c", ";", "d", ";", "e", ";", "f", ";", "g">>>>),
     ListElement("OL", [k \in 1..(MaxListRows + 1) |-> <<"i", ",", "j">>])}

RECURSIVE ContentsOf(_)
ContentsOf(n) ==
    IF n = 0 THEN {<<>>}
    ELSE LET shorter == ContentsOf(n - 1)
         IN  shorter \cup {Append(c, e) : c \in {d \in shorter : Len(d) = n - 1}, e \in Elements}

InitRecover ==
    /\ tpContent \in ContentsOf(MaxElements)
    /\ tpInfo = <<>>
    /\ tpBomItems = <<>>
    /\ tpDone = FALSE
    /\ ExtractorIdle
    /\ FieldFillerIdle
    /\ AnalyzeIdle
    /\ StreamIdle
    /\ VersionsIdle

RecoverRun ==
    /\ ~tpDone
    /\ tpInfo' = RecoverInfo(tpContent)
    /\ tpBomItems' = RecoverBomItems(tpContent)
    /\ tpDone' = TRUE
    /\ UNCHANGED tpContent
    /\ UNCHANGED <<exVars, ffVars, anVars, stVars, verVars>>

NextRecover == RecoverRun

SpecRecover == InitRecover /\ [][NextRecover]_vars

(***************************************************************************)
(* Claims about the bill of materials.                                     *)
(***************************************************************************)

\* The lines a document offers: the text of each paragraph and of each
\* list item.
LinesOf(content) ==
    {Trim(content[i].text) : i \in {j \in 1..Len(content) : content[j].tag = "P"}}
    \cup UNION {{Trim(content[i].items[k]) : k \in 1..Len(content[i].items)} :
                   i \in {j \in 1..Len(content) : content[j].tag \in ListTags}}

SeparatorOf(line) == IF \E i \in 1..Len(line) : line[i] = ";" THEN ";" ELSE ","

\* The k-th field of a line: the text between the separator before it and
\* the separator after it, without the white space around it; empty when
\* the line has fewer than k fields.
FieldOf(line, k) ==
    LET seps == {i \in 1..Len(line) : line[i] = SeparatorOf(line)}
        before == {i \in seps : Cardinality({j \in seps : j < i}) = k - 2}
        after == {i \in seps : Cardinality({j \in seps : j < i}) = k - 1}
        from == IF k = 1 THEN 1 ELSE (CHOOSE i \in before : TRUE) + 1
        to == IF after = {} THEN Len(line) ELSE (CHOOSE i \in after : TRUE) - 1
    IN  IF k > Cardinality(seps) + 1 THEN <<>> ELSE Trim(SubSeq(line, from, to))

RowOf(line) ==
    [item |-> FieldOf(line, 1), description |-> FieldOf(line, 2), color |-> FieldOf(line, 3),
     code |-> FieldOf(line, 4), qty |-> FieldOf(line, 5), supplier |-> FieldOf(line, 6)]

CottonDocument == <<HeadingElement(<<"B", "i", "l", "l", " ", "o", "f", " ", "M", "a", "t", "e", "r", "i", "a", "l", "s">>), ParagraphElement(CottonLine)>>

CottonRow ==
    [item |-> <<"C", "o", "t", "t", "o", "n", ",", " ", "1", "0", "0", "%">>, description |-> <<"B", "l", "u", "e">>, color |-> <<>>,
     code |-> <<>>, qty |-> <<>>, supplier |-> <<>>]

\* C19: every recovered row is a line of the document split on ";" when the
\* line holds one and on "," otherwise, its trimmed parts filling item,
\* description, color, code, qty and supplier in that order and the
\* positions without a part left empty; "Cotton, 100%;Blue" under a bill of
\* materials heading gives item "Cotton, 100%" and description "Blue".
BomLineSplitIntoSixFields ==
    tpDone =>
        /\ \A r \in 1..Len(tpBomItems) :
               \E line \in LinesOf(tpContent) : tpBomItems[r] = RowOf(line)
        /\ tpContent = CottonDocument => tpBomItems = <<CottonRow>>

BomLineSplitWitness ==
    /\ tpDone
    /\ tpContent = CottonDocument
    /\ Len(tpBomItems) = 1
    /\ tpBomItems[1].item = <<"C", "o", "t", "t", "o", "n", ",", " ", "1", "0", "0", "%">>

\* C20: no document gives more than 11 rows.
BomRowsAtMostEleven == tpDone => Len(tpBomItems) <= MaxListRows

(***************************************************************************)
(* Claims about the recovered attributes.                                  *)
(***************************************************************************)

CanonicalAttributes ==
    {"brand", "designer", "description", "season", "mainFabric", "styleName",
     "styleNumber", "sizeRange"}

\* The values the "Key: Value" paragraphs of a document give for an attribute.
ParagraphValues(content, attribute) ==
    {Trim(KeyValueMatch(Trim(content[i].text)).value) :
        i \in {j \in 1..Len(content) :
                  /\ content[j].tag = "P"
                  /\ KeyValueMatch(Trim(content[j].text)).matched
                  /\ AttributeFor(ToLowerCase(Trim(KeyValueMatch(Trim(content[j].text)).key)))
                         = attribute}}

\* The non-empty texts that follow, as next sibling, a heading that names
\* the attribute.
HeadingValues(content, attribute) ==
    {Trim(content[i + 1].text) :
        i \in {j \in 1..(Len(content) - 1) :
                  /\ content[j].tag \in HeadingTags
                  /\ content[j + 1].tag \notin HeadingTags
                  /\ AttributeFor(ToLowerCase(Trim(content[j].text))) = attribute}}
    \ {<<>>}

NikeLine == <<"B", "r", "a", "n", "d", ":", " ", "N", "i", "k", "e">>

NikeThenEmptyBrandSection ==
    <<ParagraphElement(NikeLine), HeadingElement(<<"B", "r", "a", "n", "d">>), ParagraphElement(<<" ">>)>>

\* C21: after extractTechPackInfo every canonical attribute is a non-empty
\* text; an attribute that no "Key: Value" paragraph and no heading gave a
\* value keeps its default, and a heading followed by an element without
\* text leaves the attribute as the paragraphs left it ("Brand: Nike", then
\* a heading "Brand" with a blank paragraph under it, gives brand "Nike").
AttributesNeverEmpty ==
    tpDone =>
        /\ \A a \in CanonicalAttributes :
              /\ tpInfo[a] # <<>>
              /\ (ParagraphValues(tpContent, a) = {} /\ HeadingValues(tpContent, a) = {})
                     => tpInfo[a] = DefaultInfo[a]
              /\ (ParagraphValues(tpContent, a) # {} /\ HeadingValues(tpContent, a) = {})
                     => tpInfo[a] \in ParagraphValues(tpContent, a)
        /\ tpContent = NikeThenEmptyBrandSection => tpInfo.brand = <<"N", "i", "k", "e">>

AttributesNeverEmptyWitness ==
    /\ tpDone
    /\ tpContent = NikeThenEmptyBrandSection
    /\ tpInfo.brand = <<"N", "i", "k", "e">>
    /\ tpInfo.season = DefaultInfo.season

(***************************************************************************)
(* Claims about the choice of the image.                                   *)
(***************************************************************************)

\* C22: when the attachments hold an image, the image analyzed is the last
\* image attachment of the list.
AnalyzesLastImage ==
    (anStatus # "idle" /\ ~NoImageAttached) =>
        /\ IsImage(attachments[imageIndex])
        /\ \A j \in (imageIndex + 1)..Len(attachments) : ~IsImage(attachments[j])

(***************************************************************************)
(* Claims about the session of one document.                               *)
(***************************************************************************)

\* C23: when the field list of a later document of the same chat is taken
\* up, the dialogue starts at its first field, not complete and with the
\* completion turn not yet sent.
LaterDocumentStartsFreshSession ==
    [][(MetadataEffect /\ arrivals >= 2 /\ Len(metadataFields) > 0) =>
           /\ currentFieldIndex' = 0
           /\ ~isComplete'
           /\ ~hasCompletionMessageBeenSent']_vars

(***************************************************************************)
(* Claims about the order of the dialogue.                                 *)
(***************************************************************************)

\* A click that the early return of its handler lets through.
AcceptedClick ==
    \/ \E v \in FieldValues : handleSubmitField(v) /\ ~SubmitRejected(v)
    \/ handleSkipField /\ ~SkipRejected

\* C24: with the field list of one document, an accepted submit or skip
\* appends exactly one turn and moves the cursor by exactly one, from the
\* field it targets to the next, and the completion turn is appended only
\* when the cursor has passed every field.
FieldsResolvedOnceInOrder ==
    [][/\ (AcceptedClick /\ arrivals = 1 /\ fieldsNeedingInput = metadataFields) =>
              /\ Len(messages') = Len(messages) + 1
              /\ currentFieldIndex' = currentFieldIndex + 1
       /\ (arrivals = 1 /\ CompletionTurnCount' > CompletionTurnCount) =>
              currentFieldIndex = Len(fieldsNeedingInput)]_vars

(***************************************************************************)
(* Claims about blank values.                                              *)
(***************************************************************************)

BlankValues == {v \in FieldValues : \A i \in 1..Len(v) : v[i] \in WhiteSpace}

\* C25: a submit whose value is empty or only white space changes neither
\* the content, nor the cursor, nor the turns, nor the requests sent to the
\* store, in whatever state the form is.
BlankSubmitChangesNothing ==
    [][(\E v \in BlankValues : handleSubmitField(v)) =>
           UNCHANGED <<artifactContent, currentFieldIndex, messages, requests>>]_vars

BlankSubmitWitness ==
    /\ lastCall = [op |-> "submit", early |-> TRUE]
    /\ fieldValue = <<" ">>
    /\ currentFieldIndex < Len(fieldsNeedingInput)
    /\ artifactContent # <<>>

(***************************************************************************)
(* Claims about the draft on both sides of the data stream.                *)
(***************************************************************************)

ApplyTextDeltaPrepend(content, delta) == delta \o content

\* content: draftArtifact.content + (streamPart.content as string)
ApplyTextDelta(content, delta) == content \o delta

\* The draft the client holds after onStreamPart has taken the parts in
\* order.
RECURSIVE ApplyTextDeltas(_, _)
ApplyTextDeltas(content, parts) ==
    IF parts = <<>> THEN content
    ELSE ApplyTextDeltas(
             IF Head(parts).type = "text-delta"
             THEN ApplyTextDelta(content, Head(parts).content)
             ELSE content,
             Tail(parts))

\* The events written after the clear event.
EventsAfterClear ==
    LET clears == {k \in 1..Len(dataStream) : dataStream[k].type = "clear"}
    IN  IF clears = {} THEN <<>>
        ELSE SubSeq(dataStream, (CHOOSE k \in clears : \A j \in clears : j <= k) + 1,
                    Len(dataStream))

TextDeltasAfterClear ==
    SelectSeq(EventsAfterClear, LAMBDA e : e.type = "text-delta")

\* C26: when a generation has ended well, the content given to saveDocument
\* is the texts of the text-delta events written after the clear event, put
\* together in the order they were written, and it is the draft the client
\* gets by applying these events in order to an empty draft.
SavedContentIsStreamedDraft ==
    (anStatus = "returned" /\ saveCalls # <<>>) =>
        /\ saveCalls[1].content =
               Flatten([k \in 1..Len(TextDeltasAfterClear) |-> TextDeltasAfterClear[k].content])
        /\ saveCalls[1].content = ApplyTextDeltas(<<>>, EventsAfterClear)

SavedContentWitness ==
    /\ anStatus = "returned"
    /\ saveCalls # <<>>
    /\ Len(TextDeltasAfterClear) = 3
    /\ TextDeltasAfterClear[2] # TextDeltasAfterClear[3]
    /\ saveCalls[1].content = ApplyTextDeltas(<<>>, EventsAfterClear)

(***************************************************************************)
(* Claims about the store.                                                 *)
(***************************************************************************)

\* C27: when the completion turn is appended, the save of the last field
\* resolved has completed, and the store holds the content the artifact has.
SaveCompleteBeforeReview ==
    [][(CompletionEffect /\ CompletionTurnCount' > CompletionTurnCount) =>
           /\ Len(requests) \notin pendingSaves
           /\ storeContent = artifactContent]_vars

\* C28: once every save issued by the submits and skips has completed, and
\* none has failed, the content last stored is the content of the artifact
\* (which is the content of the last save issued).
StoreHoldsContentAfterAllSaves ==
    (/\ requests # <<>>
     /\ pendingSaves = {}
     /\ saveErrors = 0
     /\ artifactContent = requests[Len(requests)]) => storeContent = artifactContent

(***************************************************************************)
(* Claims about the size of the fragments.                                 *)
(***************************************************************************)

\* C29: after text-deltas that bring the length of the draft to 450 or
\* more, the draft is visible, whatever the length of each delta.
VisibleOnceLongEnough ==
    (deltaLog # <<>> /\ ContentLength(draftArtifact) >= VisibleBelow) =>
        draftArtifact.isVisible

(***************************************************************************)
(* Claims about the field shown.                                           *)
(***************************************************************************)

\* C30: in every render that returns the form, the cursor is before the end
\* of the field list, so that the field shown is one of the list.
RenderedFormShowsDefinedField ==
    FormRendered => currentFieldIndex < Len(fieldsNeedingInput)

====
